---- MODULE Spec2Model ----
(***************************************************************************)
(* A model of backend/main.py, the tarot interpretation relay: the request *)
(* handler interpret_spread, the prompt builder build_prompt and the       *)
(* output guardrail normalize_output.                                      *)
(*                                                                         *)
(* A Python str is a sequence of one-character strings.  The two non-ASCII *)
(* characters of the source are written by their code points: the em dash  *)
(* is "U+2014" and the en dash is "U+2013"; each is one character.         *)
(***************************************************************************)
EXTENDS Integers, Sequences, FiniteSets, TLC

VARIABLES
    pc,              \* where the modelled call stands
    req,             \* the SpreadRequest
    prompt,          \* build_prompt's result
    calls,           \* number of client.responses.create calls made for the request
    completion,      \* what the provider call produced: a response or a raised error
    text_parts,      \* the local list text_parts of interpret_spread
    text,            \* the text handed to normalize_output
    response,        \* what the endpoint answers: status, detail, interpretation
    normalized,      \* normalize_output(req, text)
    renormalized     \* normalize_output(req, normalized)

vars == <<pc, req, prompt, calls, completion, text_parts, text, response, normalized, renormalized>>

\* ------------------------------------------------------------------ bounds

\* Most cards in a request.
MaxCards == 2
\* Most vocabulary pieces a raw completion text is put together from.
MaxChunks == 4
\* Most output items in a provider response.
MaxItems == 2
\* Most content parts in an output item.
MaxParts == 2

\* ------------------------------------------------------- characters, strings

EmDash == "U+2014"

\* The whitespace of str.strip() and of \s that the model's texts can hold.
IsSpace(c) == c \in {" ", "\n", "\t"}

Uppers == <<"A","B","C","D","E","F","G","H","I","J","K","L","M",
            "N","O","P","Q","R","S","T","U","V","W","X","Y","Z">>
Lowers == <<"a","b","c","d","e","f","g","h","i","j","k","l","m",
            "n","o","p","q","r","s","t","u","v","w","x","y","z">>

UpperSet == {Uppers[k] : k \in 1..Len(Uppers)}
LowerOf == [u \in UpperSet |-> Lowers[CHOOSE k \in 1..Len(Uppers) : Uppers[k] = u]]

\* Case folding of re.IGNORECASE on the ASCII letters.
Lower(c) == IF c \in UpperSet THEN LowerOf[c] ELSE c

\* s[i..] with 1 <= i <= Len(s)+1.
From(s, i) == SubSeq(s, i, Len(s))

\* a in b, for two str.
Contains(s, sub) ==
    \E i \in 1..(Len(s) - Len(sub) + 1) : \A k \in 1..Len(sub) : s[i + k - 1] = sub[k]

\* The first index >= i of s that holds no whitespace, Len(s)+1 when there is none:
\* where a greedy \s* started at i ends.
SkipSpace(s, i) ==
    CHOOSE j \in i..(Len(s) + 1) :
        /\ \A k \in i..(j - 1) : IsSpace(s[k])
        /\ j = Len(s) + 1 \/ ~IsSpace(s[j])

\* str.strip(): whitespace removed at both ends.
Strip(s) ==
    LET first == SkipSpace(s, 1)
        last  == IF first > Len(s) THEN 0
                 ELSE CHOOSE j \in first..Len(s) :
                          /\ ~IsSpace(s[j])
                          /\ \A k \in (j + 1)..Len(s) : IsSpace(s[k])
    IN  SubSeq(s, first, last)

\* Whether the literal lit matches s at index i under re.IGNORECASE.
MatchAt(s, i, lit) ==
    /\ i + Len(lit) - 1 <= Len(s)
    /\ \A k \in 1..Len(lit) : Lower(s[i + k - 1]) = Lower(lit[k])

\* ------------------------------------------------------------------- model

\* "daily", the spread_type that selects daily mode whatever the number of cards.
Daily == "daily"

Upright == <<"U","p","r","i","g","h","t">>
Reversed == <<"R","e","v","e","r","s","e","d">>

\* The orientation label with the two labels swapped.
OrientationSwapped(c) == IF c.is_reversed THEN Upright ELSE Reversed

\* "Reversed" if c.is_reversed else "Upright"
Orientation(c) == IF c.is_reversed THEN Reversed ELSE Upright

\* The meaning text of the other orientation.
MeaningSwapped(c) == IF c.is_reversed THEN c.upright_meaning ELSE c.reversed_meaning

\* c.reversed_meaning if c.is_reversed else c.upright_meaning
Meaning(c) == IF c.is_reversed THEN c.reversed_meaning ELSE c.upright_meaning

\* is_daily = (req.spread_type == "daily") or (n == 1)
is_daily(r) == r.spread_type = Daily \/ Len(r.cards) = 1

\* ---------------------------------------------------------- normalize_output

\* The alternatives of the opener pattern.
OpCertainly ==
    <<"C","e","r","t","a","i","n","l","y","!">>
OpSure ==
    <<"S","u","r","e","!">>
OpOfCourse ==
    <<"O","f"," ","c","o","u","r","s","e","!">>
OpAbsolutely ==
    <<"A","b","s","o","l","u","t","e","l","y","!">>
OpOkay ==
    <<"O","k","a","y","!">>
OpAlright ==
    <<"A","l","r","i","g","h","t","!">>
Openers == <<OpCertainly, OpSure, OpOfCourse, OpAbsolutely, OpOkay, OpAlright>>

\* The end of the match of ^\s*(Certainly!|...|Alright!)[^\n]*\n+ on s (the index of
\* its last character), 0 when the pattern does not match.  \s* runs over the leading
\* whitespace (no alternative starts with whitespace, so giving some back never
\* helps), one alternative matches there, [^\n]* runs to the end of that line, and
\* \n+ needs the line to end in a newline and takes every newline that follows.
OpenerMatchEnd(s) ==
    LET i == SkipSpace(s, 1)
        alts == {k \in 1..Len(Openers) : MatchAt(s, i, Openers[k])}
    IN  IF alts = {} THEN 0
        ELSE LET k   == CHOOSE a \in alts : \A b \in alts : a <= b
                 j   == i + Len(Openers[k])
                 eol == CHOOSE e \in j..(Len(s) + 1) :
                            /\ \A m \in j..(e - 1) : s[m] # "\n"
                            /\ e = Len(s) + 1 \/ s[e] = "\n"
             IN  IF eol > Len(s) THEN 0
                 ELSE CHOOSE e \in eol..Len(s) :
                          /\ \A m \in eol..e : s[m] = "\n"
                          /\ e = Len(s) \/ s[e + 1] # "\n"

\* The opener word alone cut off, the rest of its line kept.
StripOpenerWordOnly(s) ==
    IF OpenerMatchEnd(s) = 0 THEN s
    ELSE LET i == SkipSpace(s, 1)
             k == CHOOSE a \in 1..Len(Openers) : MatchAt(s, i, Openers[a])
         IN  From(s, i + Len(Openers[k]))

\* re.sub(opener pattern, "", text, flags=re.IGNORECASE): the pattern is anchored at
\* the start of the text (no re.MULTILINE), so at most one match is replaced.
StripOpener(s) == From(s, OpenerMatchEnd(s) + 1)

\* The alternatives of the heading pattern.
KwPast ==
    <<"P","a","s","t">>
KwPresent ==
    <<"P","r","e","s","e","n","t">>
KwFuture ==
    <<"F","u","t","u","r","e">>
\* The alternatives with Future left out.
KeywordsWithoutFuture == <<KwPast, KwPresent>>

Keywords == <<KwPast, KwPresent, KwFuture>>

\* The end of the match of \*\*\s*(Past|Present|Future)\s*<em dash>.*?\*\*:?(\s*)
\* tried at index p of s (the index after its last character), 0 when it does not
\* match there.  .*? is lazy and . matches no newline: it stops before the first
\* "**" that follows the dash on the same line.  :? and the final \s* are greedy
\* and can match nothing, so nothing after the closing "**" makes the match fail.
HeadingMatchEnd(s, p) ==
    IF ~(p + 1 <= Len(s) /\ s[p] = "*" /\ s[p + 1] = "*") THEN 0
    ELSE
    LET i == SkipSpace(s, p + 2)
        alts == {k \in 1..Len(Keywords) : MatchAt(s, i, Keywords[k])}
    IN  IF alts = {} THEN 0
        ELSE
        LET k == CHOOSE a \in alts : \A b \in alts : a <= b
            d == SkipSpace(s, i + Len(Keywords[k]))
        IN  IF ~(d <= Len(s) /\ s[d] = EmDash) THEN 0
            ELSE
            LET closes == {q \in (d + 1)..(Len(s) - 1) :
                              /\ s[q] = "*" /\ s[q + 1] = "*"
                              /\ \A m \in (d + 1)..(q - 1) : s[m] # "\n"}
            IN  IF closes = {} THEN 0
                ELSE
                LET q == CHOOSE a \in closes : \A b \in closes : a <= b
                    c == IF q + 2 <= Len(s) /\ s[q + 2] = ":" THEN q + 3 ELSE q + 2
                IN  SkipSpace(s, c)

\* re.sub(heading pattern, "", s, flags=re.IGNORECASE) keeps the stretches of s
\* between the matches: one pass from left to right, each match found at the
\* leftmost index not inside an earlier match, the search going on after it.
\* KeptFrom gives those stretches, p being the index the search is at, start the
\* index the current stretch began at and acc the stretches closed so far.
RECURSIVE KeptFrom(_, _, _, _)
KeptFrom(s, p, start, acc) ==
    IF p > Len(s) THEN Append(acc, SubSeq(s, start, Len(s)))
    ELSE LET e == HeadingMatchEnd(s, p)
         IN  IF e = 0 THEN KeptFrom(s, p + 1, start, acc)
             ELSE KeptFrom(s, e, e, Append(acc, SubSeq(s, start, p - 1)))

KeptPieces(s) == KeptFrom(s, 1, 1, <<>>)

RECURSIVE Concat(_)
Concat(ss) == IF ss = <<>> THEN <<>> ELSE Head(ss) \o Concat(Tail(ss))

\* re.sub(heading pattern, "", s, flags=re.IGNORECASE)
RemoveHeadings(s) == Concat(KeptPieces(s))

\* The literal looked for by: if "**Daily Card" not in text
DailyCardMarker ==
    <<"*","*","D","a","i","l","y"," ","C","a","r","d">>

HeaderOpen ==
    <<"*","*","D","a","i","l","y"," ","C","a","r","d"," ","U+2014"," ">>
HeaderMid ==
    <<" ","(">>
HeaderClose ==
    <<")",":","*","*">>

\* f"**Daily Card <em dash> {c.name} ({orientation}):**"
DailyHeader(c) == HeaderOpen \o c.name \o HeaderMid \o Orientation(c) \o HeaderClose

\* The daily branch with the header prepended whether or not the text has one.
NormalizeDailyAlwaysHeader(r, t) ==
    Strip(DailyHeader(r.cards[1]) \o <<"\n">> \o Strip(RemoveHeadings(t)))

\* The daily branch of normalize_output, t being the text after opener stripping.
NormalizeDaily(r, t) ==
    LET t2 == Strip(RemoveHeadings(t))
    IN  IF ~Contains(t2, DailyCardMarker)
        THEN Strip(DailyHeader(r.cards[1]) \o <<"\n">> \o t2)
        ELSE t2

normalize_output(r, t) ==
    LET t1 == Strip(StripOpener(t))
    IN  Strip(IF is_daily(r) THEN NormalizeDaily(r, t1) ELSE t1)

\* ------------------------------------------------------------- build_prompt

\* The pieces of the daily f-string, in order: up to {c.name}, up to {orientation},
\* up to {meaning}, and what follows {meaning}.
DailyIntro ==
    <<"\n","Y","o","u"," ","a","r","e"," ","a"," ","t","a","r","o","t"," ","r","e","a","d","e",
      "r","."," ","W","r","i","t","e"," ","a","n"," ","i","n","t","e","r","p","r","e","t","a",
      "t","i","o","n"," ","f","o","r"," ","a"," ","S","I","N","G","L","E"," ","C","A","R","D",
      " ","d","a","i","l","y"," ","d","r","a","w",".","\n","\n","S","T","R","I","C","T"," ","R",
      "U","L","E","S",":","\n","-"," ","D","o"," ","N","O","T"," ","u","s","e"," ","P","a","s",
      "t","/","P","r","e","s","e","n","t","/","F","u","t","u","r","e",".","\n","-"," ","D","o",
      " ","N","O","T"," ","i","n","c","l","u","d","e"," ","g","r","e","e","t","i","n","g","s",
      " ","o","r"," ","f","i","l","l","e","r"," ","l","i","k","e"," ","\"","C","e","r","t","a",
      "i","n","l","y","!","\"",","," ","\"","S","u","r","e","!","\"",","," ","\"","O","f"," ",
      "c","o","u","r","s","e","!","\"",".","\n","-"," ","D","o"," ","N","O","T"," ","m","e","n",
      "t","i","o","n"," ","t","h","a","t"," ","y","o","u","'","r","e"," ","a","n"," ","A","I",
      ".","\n","-"," ","O","u","t","p","u","t"," ","O","N","L","Y"," ","i","n"," ","t","h","i",
      "s"," ","e","x","a","c","t"," ","s","t","r","u","c","t","u","r","e",":","\n","\n","*","*",
      "D","a","i","l","y"," ","C","a","r","d"," ","U+2014"," ">>
DailyAfterName ==
    <<" ","(">>
DailyAfterOrientation ==
    <<")",":","*","*","\n","<","1","U+2013","2"," ","s","h","o","r","t"," ","p","a","r","a","g",
      "r","a","p","h","s",">","\n","\n","*","*","O","v","e","r","a","l","l"," ","M","e","s","s",
      "a","g","e",":","*","*","\n","<","1"," ","s","h","o","r","t"," ","p","a","r","a","g","r",
      "a","p","h",">","\n","\n","C","a","r","d"," ","m","e","a","n","i","n","g"," ","r","e","f",
      "e","r","e","n","c","e"," ","(","u","s","e"," ","a","s"," ","g","u","i","d","a","n","c",
      "e",","," ","d","o"," ","n","o","t"," ","q","u","o","t","e"," ","v","e","r","b","a","t",
      "i","m",")",":","\n">>
DailyEnd ==
    <<"\n">>

\* The daily branch: the f-string, then .strip().
DailyPrompt(c) ==
    Strip(DailyIntro \o c.name \o DailyAfterName \o Orientation(c)
              \o DailyAfterOrientation \o Meaning(c) \o DailyEnd)

\* The lines the list lines starts with.
MultiIntro ==
    <<"Y","o","u"," ","a","r","e"," ","a"," ","t","a","r","o","t"," ","r","e","a","d","e","r",
      "."," ","I","n","t","e","r","p","r","e","t"," ","t","h","e"," ","f","o","l","l","o","w",
      "i","n","g"," ","s","p","r","e","a","d",".">>
MultiRules ==
    <<"S","T","R","I","C","T"," ","R","U","L","E","S",":">>
MultiNoGreetings ==
    <<"-"," ","D","o"," ","N","O","T"," ","i","n","c","l","u","d","e"," ","g","r","e","e","t",
      "i","n","g","s"," ","o","r"," ","f","i","l","l","e","r"," ","l","i","k","e"," ","\"","C",
      "e","r","t","a","i","n","l","y","!","\"",","," ","\"","S","u","r","e","!","\"",","," ",
      "\"","O","f"," ","c","o","u","r","s","e","!","\"",".">>
MultiEachCard ==
    <<"-"," ","F","o","r"," ","E","A","C","H"," ","c","a","r","d",","," ","o","u","t","p","u",
      "t"," ","e","x","a","c","t","l","y"," ","o","n","e"," ","s","e","c","t","i","o","n"," ",
      "i","n"," ","t","h","i","s"," ","f","o","r","m","a","t",":">>
MultiSectionFormat ==
    <<" "," ","*","*","<","P","o","s","i","t","i","o","n",">"," ","U+2014"," ","<","C","a","r",
      "d"," ","N","a","m","e",">"," ","(","<","U","p","r","i","g","h","t","/","R","e","v","e",
      "r","s","e","d",">",")",":","*","*">>
MultiSectionBody ==
    <<" "," ","<","1"," ","p","a","r","a","g","r","a","p","h"," ","i","n","t","e","r","p","r",
      "e","t","a","t","i","o","n",">">>
MultiEndWith ==
    <<"-"," ","E","n","d"," ","w","i","t","h",":">>
MultiClosing ==
    <<" "," ","*","*","P","u","t","t","i","n","g"," ","I","t"," ","A","l","l"," ","T","o","g",
      "e","t","h","e","r",":","*","*">>
MultiSynthesis ==
    <<" "," ","<","1"," ","p","a","r","a","g","r","a","p","h"," ","s","y","n","t","h","e","s",
      "i","s",">">>
MultiCardsLabel ==
    <<"C","A","R","D","S",":">>
MultiPreamble ==
    <<MultiIntro, <<>>, MultiRules, MultiNoGreetings, MultiEachCard, MultiSectionFormat,
      MultiSectionBody, MultiEndWith, MultiClosing, MultiSynthesis, <<>>, MultiCardsLabel>>

\* The pieces of the f-string appended for each card.
LinePosition ==
    <<"-"," ","P","o","s","i","t","i","o","n",":"," ">>
LineCard ==
    <<" ","|"," ","C","a","r","d",":"," ">>
LineOrientation ==
    <<" ","|"," ","O","r","i","e","n","t","a","t","i","o","n",":"," ">>
LineMeaningRef ==
    <<" ","|"," ","M","e","a","n","i","n","g","R","e","f",":"," ">>

CardLine(c) ==
    LinePosition \o c.position \o LineCard \o c.name
        \o LineOrientation \o Orientation(c) \o LineMeaningRef \o Meaning(c)

\* The lines appended by the loop, the cards taken last to first.
CardLinesBackwards(cards) ==
    [k \in 1..Len(cards) |-> CardLine(cards[Len(cards) + 1 - k])]

\* for c in req.cards: lines.append(...)
CardLines(cards) == [k \in 1..Len(cards) |-> CardLine(cards[k])]

\* sep.join(ss)
RECURSIVE Join(_, _)
Join(sep, ss) ==
    IF ss = <<>> THEN <<>>
    ELSE IF Len(ss) = 1 THEN ss[1]
    ELSE ss[1] \o sep \o Join(sep, Tail(ss))

build_prompt(r) ==
    IF is_daily(r) THEN DailyPrompt(r.cards[1])
    ELSE Join(<<"\n">>, MultiPreamble \o CardLines(r.cards))

\* ------------------------------------------------------------------ inputs

NameFool ==
    <<"T","h","e"," ","F","o","o","l">>
NameSun ==
    <<"T","h","e"," ","S","u","n">>
PosPast ==
    <<"P","a","s","t">>
PosPresent ==
    <<"P","r","e","s","e","n","t">>
MeanBeginnings ==
    <<"N","e","w"," ","b","e","g","i","n","n","i","n","g","s">>
MeanReckless ==
    <<"R","e","c","k","l","e","s","s","n","e","s","s">>
\* A meaning text that ends in a line break.
MeanGloom ==
    <<"G","l","o","o","m","\n">>

\* TarotCardInput, the fields the code reads (name, position, is_reversed and the
\* two meanings; suit, number, keywords, imageName and arcana are never read).
Cards ==
    [name : {NameFool, NameSun},
     position : {PosPast, PosPresent},
     is_reversed : BOOLEAN,
     upright_meaning : {MeanBeginnings},
     reversed_meaning : {MeanReckless, MeanGloom}]

FoolUpright ==
    [name |-> NameFool, position |-> PosPast, is_reversed |-> FALSE,
     upright_meaning |-> MeanBeginnings, reversed_meaning |-> MeanReckless]
SunReversed ==
    [name |-> NameSun, position |-> PosPresent, is_reversed |-> TRUE,
     upright_meaning |-> MeanBeginnings, reversed_meaning |-> MeanGloom]

SpreadTypes == {Daily, "three_card"}

\* The sequences over S of length lo..hi.
SeqsOf(S, lo, hi) == UNION {[1..n -> S] : n \in lo..hi}

\* SpreadRequest: every request of at most MaxCards cards.
Requests == [spread_type : SpreadTypes, cards : SeqsOf(Cards, 0, MaxCards)]

\* The pieces raw completion texts are put together from.
ChStars ==
    <<"*","*">>
ChHeading ==
    <<"*","*","P","A","S","T"," ","U+2014"," ","n","o","w","*","*",":">>
ChTail ==
    <<"f","u","t","u","r","e"," ","U+2014","*","*">>
ChMarker ==
    <<"*","*","D","a","i","l","y"," ","C","a","r","d">>
ChOpener ==
    <<"s","u","r","e","!">>
ChNewline ==
    <<"\n">>
ChWord ==
    <<"T","r","u","s","t">>
Chunks == {ChStars, ChHeading, ChTail, ChMarker, ChOpener, ChNewline, ChWord}

\* The raw texts: every concatenation of at most MaxChunks pieces.
RawTexts == {Concat(ss) : ss \in SeqsOf(Chunks, 0, MaxChunks)}

\* The requests normalize_output is applied to: it reads the spread type, whether
\* there is exactly one card, and the first card's name and orientation.
NormRequests ==
    {[spread_type |-> Daily, cards |-> <<FoolUpright>>],
     [spread_type |-> "three_card", cards |-> <<SunReversed>>],
     [spread_type |-> Daily, cards |-> <<SunReversed, FoolUpright>>],
     [spread_type |-> "three_card", cards |-> <<FoolUpright, SunReversed>>]}

\* The requests the endpoint is called with: either spread type, and from no card
\* to MaxCards cards, the two orientations taking turns.
Deck(n) == [k \in 1..n |-> IF k % 2 = 1 THEN SunReversed ELSE FoolUpright]
HandlerRequests == {[spread_type |-> t, cards |-> Deck(n)] : t \in SpreadTypes, n \in 0..MaxCards}

TextCalm ==
    <<"S","t","a","y"," ","c","a","l","m",".">>
TextBlank ==
    <<" ">>
\* A content part: one that carries text, or one without a text attribute.
TextPart(t) == [has_text |-> TRUE, text |-> t]
NoTextPart == [has_text |-> FALSE, text |-> <<>>]
Parts == {NoTextPart, TextPart(TextCalm), TextPart(TextBlank)}

\* The contents of a message item: at most MaxParts parts, no part twice.
Contents ==
    {c \in SeqsOf(Parts, 0, MaxParts) : \A i, j \in 1..Len(c) : i # j => c[i] # c[j]}

\* The output items: the message items, and one item of another type that carries text.
Items ==
    {[type |-> "message", content |-> c] : c \in Contents}
        \cup {[type |-> "reasoning", content |-> <<TextPart(TextCalm)>>]}

\* completion.output: at most MaxItems items (None and the empty list alike are <<>>).
Outputs == SeqsOf(Items, 0, MaxItems)

ErrTimeout ==
    <<"t","i","m","e","o","u","t">>
ErrRateLimit ==
    <<"r","a","t","e"," ","l","i","m","i","t">>
\* str(e) of the error the provider call raises.
ErrorMessages == {ErrTimeout, ErrRateLimit}

NoResponse == [status |-> 0, detail |-> <<>>, interpretation |-> <<>>]
NoCompletion == [raised |-> FALSE, message |-> <<>>, output |-> <<>>]

\* ------------------------------------------- normalize_output as a function

InitNorm ==
    /\ pc = "raw"
    /\ req \in NormRequests
    /\ text \in RawTexts
    /\ prompt = <<>>
    /\ calls = 0
    /\ completion = NoCompletion
    /\ text_parts = <<>>
    /\ response = NoResponse
    /\ normalized = <<>>
    /\ renormalized = <<>>

\* normalize_output(req, text)
Normalize ==
    /\ pc = "raw"
    /\ normalized' = normalize_output(req, text)
    /\ pc' = "normalized"
    /\ UNCHANGED <<req, prompt, calls, completion, text_parts, text, response, renormalized>>

\* normalize_output(req, normalize_output(req, text))
NormalizeAgain ==
    /\ pc = "normalized"
    /\ renormalized' = normalize_output(req, normalized)
    /\ pc' = "renormalized"
    /\ UNCHANGED <<req, prompt, calls, completion, text_parts, text, response, normalized>>

NextNorm == Normalize \/ NormalizeAgain

SpecNorm == InitNorm /\ [][NextNorm]_vars

\* -------------------------------------------------------- interpret_spread

NoCardsDetail ==
    <<"N","o"," ","c","a","r","d","s"," ","p","r","o","v","i","d","e","d">>
FailedPrefix ==
    <<"O","p","e","n","A","I"," ","r","e","q","u","e","s","t"," ","f","a","i","l","e","d",":",
      " ">>
Fallback ==
    <<"I","'","m"," ","s","o","r","r","y",","," ","I"," ","c","o","u","l","d","n","'","t"," ",
      "i","n","t","e","r","p","r","e","t"," ","t","h","i","s"," ","s","p","r","e","a","d"," ",
      "r","i","g","h","t"," ","n","o","w",".">>

\* raise HTTPException(status_code=400, detail="No cards provided")
BadRequest == [status |-> 400, detail |-> NoCardsDetail, interpretation |-> <<>>]

\* The detail of the upstream failure with the error's message left out.
UpstreamFailureBare(message) ==
    [status |-> 500, detail |-> FailedPrefix, interpretation |-> <<>>]

\* raise HTTPException(status_code=500, detail=f"OpenAI request failed: {e}")
UpstreamFailure(message) ==
    [status |-> 500, detail |-> FailedPrefix \o message, interpretation |-> <<>>]

\* return SpreadResponse(interpretation=text), answered with status 200
Success(t) == [status |-> 200, detail |-> <<>>, interpretation |-> t]

\* The inner loop over every item, whatever its type.
PartsOfAnyItem(item) == SelectSeq(item.content, LAMBDA part : part.has_text /\ part.text # <<>>)

\* The parts one output item adds to text_parts: those of a "message" item whose
\* text is there and not empty (getattr(part, "text", None), then: if t).
PartsOfItem(item) ==
    IF item.type = "message"
    THEN SelectSeq(item.content, LAMBDA part : part.has_text /\ part.text # <<>>)
    ELSE <<>>

\* The loop over completion.output, acc being text_parts so far.
RECURSIVE CollectParts(_, _)
CollectParts(output, acc) ==
    IF output = <<>> THEN acc
    ELSE CollectParts(Tail(output),
                      acc \o [j \in 1..Len(PartsOfItem(Head(output))) |->
                                  PartsOfItem(Head(output))[j].text])

\* if not req.cards: raise HTTPException(400)
RejectEmpty ==
    /\ pc = "received"
    /\ req.cards = <<>>
    /\ response' = BadRequest
    /\ pc' = "done"
    /\ UNCHANGED <<req, prompt, calls, completion, text_parts, text, normalized, renormalized>>

\* prompt = build_prompt(req)
BuildPrompt ==
    /\ pc = "received"
    /\ req.cards # <<>>
    /\ prompt' = build_prompt(req)
    /\ pc' = "prompted"
    /\ UNCHANGED <<req, calls, completion, text_parts, text, response, normalized, renormalized>>

\* client.responses.create(...) returns a response.
CallReturns ==
    /\ pc = "prompted"
    /\ \E output \in Outputs :
           completion' = [raised |-> FALSE, message |-> <<>>, output |-> output]
    /\ calls' = calls + 1
    /\ pc' = "returned"
    /\ UNCHANGED <<req, prompt, text_parts, text, response, normalized, renormalized>>

\* client.responses.create(...) raises, and the handler calls it once more.
CallRaisesAndRetries ==
    /\ pc = "prompted"
    /\ \E message \in ErrorMessages :
           completion' = [raised |-> TRUE, message |-> message, output |-> <<>>]
    /\ calls' = calls + 1
    /\ pc' = "prompted"
    /\ UNCHANGED <<req, prompt, text_parts, text, response, normalized, renormalized>>

\* client.responses.create(...) raises: except Exception as e: raise HTTPException(500)
CallRaises ==
    /\ pc = "prompted"
    /\ \E message \in ErrorMessages :
        /\ completion' = [raised |-> TRUE, message |-> message, output |-> <<>>]
        /\ response' = UpstreamFailure(message)
    /\ calls' = calls + 1
    /\ pc' = "done"
    /\ UNCHANGED <<req, prompt, text_parts, text, normalized, renormalized>>

\* The loops that fill text_parts from completion.output.
ExtractText ==
    /\ pc = "returned"
    /\ text_parts' = CollectParts(completion.output, <<>>)
    /\ pc' = "extracted"
    /\ UNCHANGED <<req, prompt, calls, completion, text, response, normalized, renormalized>>

\* text = "".join(text_parts).strip()
JoinText ==
    /\ pc = "extracted"
    /\ text' = Strip(Concat(text_parts))
    /\ pc' = "joined"
    /\ UNCHANGED <<req, prompt, calls, completion, text_parts, response, normalized, renormalized>>

\* if not text: text = the fallback; text = normalize_output(req, text);
\* return SpreadResponse(interpretation=text)
Respond ==
    /\ pc = "joined"
    /\ text' = normalize_output(req, IF text = <<>> THEN Fallback ELSE text)
    /\ response' = Success(text')
    /\ pc' = "done"
    /\ UNCHANGED <<req, prompt, calls, completion, text_parts, normalized, renormalized>>

Init ==
    /\ pc = "received"
    /\ req \in HandlerRequests
    /\ prompt = <<>>
    /\ calls = 0
    /\ completion = NoCompletion
    /\ text_parts = <<>>
    /\ text = <<>>
    /\ response = NoResponse
    /\ normalized = <<>>
    /\ renormalized = <<>>

Next ==
    \/ RejectEmpty
    \/ BuildPrompt
    \/ CallReturns
    \/ CallRaises
    \/ ExtractText
    \/ JoinText
    \/ Respond

Spec == Init /\ [][Next]_vars

\* ---------------------------------------------- build_prompt as a function

InitPrompt ==
    /\ pc = "request"
    /\ req \in {r \in Requests : r.cards # <<>>}
    /\ prompt = <<>>
    /\ calls = 0
    /\ completion = NoCompletion
    /\ text_parts = <<>>
    /\ text = <<>>
    /\ response = NoResponse
    /\ normalized = <<>>
    /\ renormalized = <<>>

\* build_prompt(req)
Build ==
    /\ pc = "request"
    /\ prompt' = build_prompt(req)
    /\ pc' = "prompt"
    /\ UNCHANGED <<req, calls, completion, text_parts, text, response, normalized, renormalized>>

NextPrompt == Build

SpecPrompt == InitPrompt /\ [][NextPrompt]_vars

\* ------------------------------------------------------------- properties
\* What the claims speak of, said without the scanning order of the code.

HeadingWords == <<KwPast, KwPresent, KwFuture>>

\* s holds a block the heading pattern can match: "**", whitespace, a keyword in
\* any case, whitespace, an em dash, then "**" further on the same line.
HasHeadingBlock(s) ==
    \E p \in 1..Len(s) :
        /\ p + 1 <= Len(s) /\ s[p] = "*" /\ s[p + 1] = "*"
        /\ \E i \in (p + 2)..Len(s) :
            /\ \A m \in (p + 2)..(i - 1) : IsSpace(s[m])
            /\ \E k \in 1..Len(HeadingWords) :
                /\ MatchAt(s, i, HeadingWords[k])
                /\ \E d \in (i + Len(HeadingWords[k]))..Len(s) :
                    /\ \A m \in (i + Len(HeadingWords[k]))..(d - 1) : IsSpace(s[m])
                    /\ s[d] = EmDash
                    /\ \E q \in (d + 1)..(Len(s) - 1) :
                        /\ s[q] = "*" /\ s[q + 1] = "*"
                        /\ \A m \in (d + 1)..(q - 1) : s[m] # "\n"

\* s holds a heading block written the plain way: "**" directly followed by a
\* keyword, blanks, an em dash, then "**" further on the same line.
HasPlainHeading(s) ==
    \E p \in 1..Len(s) :
        /\ p + 1 <= Len(s) /\ s[p] = "*" /\ s[p + 1] = "*"
        /\ \E k \in 1..Len(HeadingWords) :
            /\ MatchAt(s, p + 2, HeadingWords[k])
            /\ \E d \in (p + 2 + Len(HeadingWords[k]))..Len(s) :
                /\ \A m \in (p + 2 + Len(HeadingWords[k]))..(d - 1) : s[m] = " "
                /\ s[d] = EmDash
                /\ \E q \in (d + 1)..(Len(s) - 1) :
                    /\ s[q] = "*" /\ s[q + 1] = "*"
                    /\ \A m \in (d + 1)..(q - 1) : s[m] # "\n"

\* The first n characters of s are a cheerful-opener prefix: leading whitespace,
\* an opener in any case, the rest of its line, and every newline that follows.
IsOpenerPrefix(s, n) ==
    /\ s[n] = "\n"
    /\ n = Len(s) \/ s[n + 1] # "\n"
    /\ \E i \in 1..n :
        /\ \A m \in 1..(i - 1) : IsSpace(s[m])
        /\ \E k \in 1..Len(Openers) :
            /\ MatchAt(s, i, Openers[k])
            /\ \E e \in (i + Len(Openers[k]))..n :
                /\ \A m \in (i + Len(Openers[k]))..(e - 1) : s[m] # "\n"
                /\ \A m \in e..n : s[m] = "\n"

StartsWithOpener(s) == \E n \in 1..Len(s) : IsOpenerPrefix(s, n)

\* An opener word occurs somewhere in s.
MentionsOpener(s) ==
    \E i \in 1..Len(s) : \E k \in 1..Len(Openers) : MatchAt(s, i, Openers[k])

\* s with its cheerful-opener prefix, if it has one, cut off.
WithoutOpener(s) ==
    IF StartsWithOpener(s)
    THEN From(s, 1 + CHOOSE n \in 1..Len(s) : IsOpenerPrefix(s, n))
    ELSE s

\* a can be had from b by deleting characters: a's characters are b's, in b's order.
RECURSIVE IsSubsequenceFrom(_, _, _, _)
IsSubsequenceFrom(a, i, b, j) ==
    IF i > Len(a) THEN TRUE
    ELSE IF j > Len(b) THEN FALSE
    ELSE IF a[i] = b[j] THEN IsSubsequenceFrom(a, i + 1, b, j + 1)
    ELSE IsSubsequenceFrom(a, i, b, j + 1)

IsSubsequence(a, b) == IsSubsequenceFrom(a, 1, b, 1)

IsPrefix(a, b) == Len(a) <= Len(b) /\ SubSeq(b, 1, Len(a)) = a

\* The header line the first card calls for.
ExpectedHeader(r) ==
    HeaderOpen \o r.cards[1].name \o <<" ", "(">>
        \o (IF r.cards[1].is_reversed THEN Reversed ELSE Upright) \o <<")", ":", "*", "*">>

\* C5 as stated: normalize_output is idempotent on every text free of cheerful
\* openers that, in daily mode, contains "**Daily Card".
C5_IdempotentOnWellFormed ==
    (/\ pc = "renormalized"
     /\ ~MentionsOpener(text)
     /\ is_daily(req) => Contains(text, DailyCardMarker))
        => renormalized = normalized

\* C5 amended: normalize_output is idempotent on every text that does not start
\* with a cheerful-opener prefix and that, in daily mode, contains "**Daily Card"
\* and holds no Past/Present/Future heading block.
C5_IdempotentWithoutHeadings ==
    (/\ pc = "renormalized"
     /\ ~StartsWithOpener(text)
     /\ is_daily(req) => Contains(text, DailyCardMarker) /\ ~HasHeadingBlock(text))
        => renormalized = normalized

C5_Witness ==
    /\ pc = "renormalized"
    /\ is_daily(req)
    /\ ~StartsWithOpener(text)
    /\ Contains(text, DailyCardMarker)
    /\ ~HasHeadingBlock(text)
    /\ MentionsOpener(text)
    /\ normalized # text
    /\ renormalized = normalized

\* C6: in daily mode the result of normalize_output always contains "**Daily Card":
\* the header line built from the first card's name and orientation is prepended
\* exactly when the text left after opener stripping and heading removal lacks it.
C6_DailyResultHasHeader ==
    (pc = "normalized" /\ is_daily(req)) =>
        LET left == Strip(RemoveHeadings(Strip(StripOpener(text))))
        IN  /\ Contains(normalized, DailyCardMarker)
            /\ ~Contains(left, DailyCardMarker) =>
                   /\ IsPrefix(ExpectedHeader(req), normalized)
                   /\ normalized = Strip(ExpectedHeader(req) \o <<"\n">> \o left)
            /\ Contains(left, DailyCardMarker) => normalized = left

C6_Witness ==
    /\ pc = "normalized"
    /\ is_daily(req)
    /\ req.spread_type # Daily
    /\ req.cards[1].is_reversed
    /\ text # <<>>
    /\ ~Contains(text, DailyCardMarker)
    /\ IsPrefix(ExpectedHeader(req), normalized)
    /\ Len(normalized) > Len(ExpectedHeader(req))

\* C7 as stated: in multi-card mode, and in daily mode when the raw text contains
\* "**Daily Card" and no Past/Present/Future heading, the result is the raw text
\* with at most one leading opener prefix cut off, trimmed.
C7_OnlyOpenerChanges ==
    (/\ pc = "normalized"
     /\ is_daily(req) => Contains(text, DailyCardMarker) /\ ~HasHeadingBlock(text))
        => normalized = Strip(WithoutOpener(text))

\* C7 amended: in multi-card mode, and in daily mode when the text left after the
\* opener prefix is cut off contains "**Daily Card" and no Past/Present/Future
\* heading, the result is the raw text with at most one leading opener prefix cut
\* off, trimmed.
C7_OnlyOpenerChangesAfterStrip ==
    pc = "normalized" =>
        LET rest == WithoutOpener(text)
        IN  (is_daily(req) => Contains(rest, DailyCardMarker) /\ ~HasHeadingBlock(rest))
                => normalized = Strip(rest)

C7_Witness ==
    /\ pc = "normalized"
    /\ is_daily(req)
    /\ StartsWithOpener(text)
    /\ Contains(WithoutOpener(text), DailyCardMarker)
    /\ ~HasHeadingBlock(WithoutOpener(text))
    /\ normalized = Strip(WithoutOpener(text))
    /\ Len(normalized) < Len(Strip(text))

\* C9 as stated: in daily mode the text normalize_output returns never contains a
\* Past/Present/Future heading block.
C9_NoHeadingInDailyResult ==
    (pc = "normalized" /\ is_daily(req)) => ~HasPlainHeading(normalized)

\* C9 amended: in daily mode one pass from left to right cuts every heading block
\* out of the opener-stripped text, with the whitespace after it.  What is kept are
\* the stretches between the blocks, in their order: no stretch holds a heading
\* block, their concatenation, trimmed, is what the result carries after the header
\* (if one is prepended), and its characters are the raw text's, in order.  Where two
\* stretches meet they may form a heading block, and that one stays.
C9_EveryHeadingFoundIsCut ==
    (pc = "normalized" /\ is_daily(req)) =>
        LET pieces == KeptPieces(Strip(StripOpener(text)))
            kept == Strip(Concat(pieces))
        IN  /\ \A k \in 1..Len(pieces) : ~HasHeadingBlock(pieces[k])
            /\ IsSubsequence(kept, text)
            /\ \/ normalized = kept
               \/ normalized = Strip(ExpectedHeader(req) \o <<"\n">> \o kept)

C9_Witness ==
    /\ pc = "normalized"
    /\ is_daily(req)
    /\ HasPlainHeading(text)
    /\ Len(KeptPieces(Strip(StripOpener(text)))) > 2
    /\ ~HasPlainHeading(normalized)
    /\ Contains(normalized, ChWord)

\* s with the whitespace at its end removed.
RStrip(s) ==
    IF \A k \in 1..Len(s) : IsSpace(s[k]) THEN <<>>
    ELSE SubSeq(s, 1, CHOOSE j \in 1..Len(s) :
                          ~IsSpace(s[j]) /\ \A k \in (j + 1)..Len(s) : IsSpace(s[k]))

IsSuffix(a, b) == Len(a) <= Len(b) /\ SubSeq(b, Len(b) - Len(a) + 1, Len(b)) = a

Min(S) == CHOOSE a \in S : \A b \in S : a <= b

\* The lines of s from index start on: s.split("\n").
RECURSIVE LinesFrom(_, _)
LinesFrom(s, start) ==
    LET breaks == {i \in start..Len(s) : s[i] = "\n"}
    IN  IF breaks = {} THEN <<SubSeq(s, start, Len(s))>>
        ELSE <<SubSeq(s, start, Min(breaks) - 1)>> \o LinesFrom(s, Min(breaks) + 1)

Lines(s) == LinesFrom(s, 1)

EntryCard ==
    <<" ","|"," ","C","a","r","d",":"," ">>
EntryOrientation ==
    <<" ","|"," ","O","r","i","e","n","t","a","t","i","o","n",":"," ">>
EntryMeaningRef ==
    <<" ","|"," ","M","e","a","n","i","n","g","R","e","f",":"," ">>
EntryPosition ==
    <<"-"," ","P","o","s","i","t","i","o","n",":"," ">>

\* A line of the form "- Position: P | Card: Name | Orientation: O | MeaningRef: M".
LooksLikeEntry(line) ==
    /\ IsPrefix(EntryPosition, line)
    /\ Contains(line, EntryCard)
    /\ Contains(line, EntryOrientation)
    /\ Contains(line, EntryMeaningRef)

\* The meaning text the card's orientation calls for.
ExpectedMeaning(c) == IF c.is_reversed THEN c.reversed_meaning ELSE c.upright_meaning

\* The entry the claim describes for card c.
ExpectedEntry(c) ==
    EntryPosition \o c.position \o EntryCard \o c.name \o EntryOrientation
        \o (IF c.is_reversed THEN Reversed ELSE Upright)
        \o EntryMeaningRef \o ExpectedMeaning(c)

ExpectedEntries(r) == [k \in 1..Len(r.cards) |-> ExpectedEntry(r.cards[k])]

HasLineBreak(s) == \E i \in 1..Len(s) : s[i] = "\n"

\* No text field of any card of r holds a line break.
SingleLineFields(r) ==
    \A k \in 1..Len(r.cards) :
        /\ ~HasLineBreak(r.cards[k].name)
        /\ ~HasLineBreak(r.cards[k].position)
        /\ ~HasLineBreak(ExpectedMeaning(r.cards[k]))

\* C3 as stated: for every request of two or more cards, whatever its spread type,
\* the lines of the prompt that have the entry form are the cards' entries, one per
\* card, in input order.
C3_OneLinePerCard ==
    (pc = "prompt" /\ Len(req.cards) >= 2) =>
        SelectSeq(Lines(prompt), LooksLikeEntry) = ExpectedEntries(req)

\* C3 amended: for every request of two or more cards whose spread type is not
\* "daily", the prompt is the fixed preamble followed by the cards' entries, one per
\* card, in input order, each starting a new line; when no field of a card holds a
\* line break the entries are the only lines of the entry form, one line per card.
C3_OneEntryPerCardWhenNotDaily ==
    (pc = "prompt" /\ ~is_daily(req)) =>
        LET ls == Lines(prompt)
        IN  /\ Len(ls) >= Len(MultiPreamble)
            /\ SubSeq(ls, 1, Len(MultiPreamble)) = MultiPreamble
            /\ SubSeq(ls, Len(MultiPreamble) + 1, Len(ls))
                   = Concat([k \in 1..Len(req.cards) |-> Lines(ExpectedEntry(req.cards[k]))])
            /\ SingleLineFields(req) =>
                   SelectSeq(ls, LooksLikeEntry) = ExpectedEntries(req)

C3_Witness ==
    /\ pc = "prompt"
    /\ ~is_daily(req)
    /\ Len(req.cards) = 2
    /\ req.cards[1].is_reversed /\ ~req.cards[2].is_reversed
    /\ req.cards[1].name # req.cards[2].name
    /\ SingleLineFields(req)
    /\ SelectSeq(Lines(prompt), LooksLikeEntry) = ExpectedEntries(req)

SingleCardLiteral ==
    <<"S","I","N","G","L","E"," ","C","A","R","D"," ","d","a","i","l","y"," ","d","r","a","w">>
MeaningReference ==
    <<"C","a","r","d"," ","m","e","a","n","i","n","g"," ","r","e","f","e","r","e","n","c","e",
      " ","(","u","s","e"," ","a","s"," ","g","u","i","d","a","n","c","e",","," ","d","o"," ",
      "n","o","t"," ","q","u","o","t","e"," ","v","e","r","b","a","t","i","m",")",":","\n">>

\* C4 as stated: for every request in daily mode the prompt contains "SINGLE CARD
\* daily draw", the header skeleton of the first card, and, as its meaning
\* reference, the first card's meaning text of its orientation.
C4_DailyPromptCarriesMeaning ==
    (pc = "prompt" /\ is_daily(req)) =>
        /\ Contains(prompt, SingleCardLiteral)
        /\ Contains(prompt, ExpectedHeader(req))
        /\ IsSuffix(MeaningReference \o ExpectedMeaning(req.cards[1]), prompt)

\* C4 amended: for every request in daily mode the prompt contains "SINGLE CARD
\* daily draw", the header skeleton of the first card, and, as its meaning
\* reference, the first card's meaning text of its orientation less the whitespace
\* at its end (the prompt is trimmed as a whole); the other orientation's text
\* never stands in its place.
C4_DailyPromptCarriesTrimmedMeaning ==
    (pc = "prompt" /\ is_daily(req)) =>
        /\ Contains(prompt, SingleCardLiteral)
        /\ Contains(prompt, ExpectedHeader(req))
        /\ IsSuffix(RStrip(MeaningReference \o ExpectedMeaning(req.cards[1])), prompt)

C4_Witness ==
    /\ pc = "prompt"
    /\ req.spread_type # Daily
    /\ Len(req.cards) = 1
    /\ req.cards[1].is_reversed
    /\ req.cards[1].reversed_meaning = MeanGloom
    /\ Contains(prompt, SingleCardLiteral)
    /\ ~Contains(prompt, req.cards[1].upright_meaning)

\* The text of one output item as the claim describes it: the texts of the parts of
\* a "message" item that carry text, in part order; nothing for any other item.
ItemText(item) ==
    IF item.type = "message"
    THEN Concat([j \in 1..Len(item.content) |->
                    IF item.content[j].has_text THEN item.content[j].text ELSE <<>>])
    ELSE <<>>

\* The concatenation over the items, in item order.
ExpectedRaw(output) == Concat([i \in 1..Len(output) |-> ItemText(output[i])])

\* C1: a request ends in exactly one of three outcomes: 400 "No cards provided" for
\* an empty card list, before any prompt is built or call is made; 500 "OpenAI
\* request failed: " and the error's message when the call raises; 200 with an
\* interpretation otherwise; no outcome carries both an error and an interpretation,
\* and nothing is answered before the handler is done.
C1_ThreeOutcomes ==
    /\ pc # "done" => response = NoResponse
    /\ pc = "done" =>
        /\ req.cards = <<>> =>
               /\ response.status = 400
               /\ response.detail = NoCardsDetail
               /\ response.interpretation = <<>>
               /\ prompt = <<>> /\ calls = 0
        /\ (req.cards # <<>> /\ completion.raised) =>
               /\ response.status = 500
               /\ response.detail = FailedPrefix \o completion.message
               /\ response.interpretation = <<>>
        /\ (req.cards # <<>> /\ ~completion.raised) =>
               /\ response.status = 200
               /\ response.detail = <<>>
               /\ response.interpretation # <<>>

C1_Witness ==
    /\ pc = "done"
    /\ req.cards # <<>>
    /\ completion.raised
    /\ response.status = 500
    /\ response.detail = FailedPrefix \o ErrTimeout

\* C2: whenever the call succeeds for a request with cards and the concatenated
\* text of the response is empty, the interpretation returned is the fallback
\* apology, exactly.
C2_EmptyTextGivesFallback ==
    (/\ pc = "done"
     /\ req.cards # <<>>
     /\ ~completion.raised
     /\ ExpectedRaw(completion.output) = <<>>)
        => response.interpretation = Fallback

\* C8 as stated: on every path through the handler exactly one provider call is made.
C8_ExactlyOneCall == pc = "done" => calls = 1

\* C8 amended: at most one provider call is made for a request and it is never
\* repeated: a request with cards ends with exactly one call made, whether the
\* call returned or raised, and a request without cards ends with none.
C8_OneCallUnlessRejected ==
    /\ calls <= 1
    /\ pc = "done" => calls = (IF req.cards = <<>> THEN 0 ELSE 1)
    /\ completion.raised => pc = "done" /\ calls = 1

C8_Witness ==
    /\ pc = "done"
    /\ completion.raised
    /\ calls = 1
    /\ response.status = 500

\* C10 as stated: the string extracted from a successful response is the
\* concatenation, in item and part order, of the texts of the message items' parts.
C10_RawIsConcatenation ==
    pc = "joined" => text = ExpectedRaw(completion.output)

\* C10 amended: text_parts joined is that concatenation, and the string extracted
\* from a successful response is that concatenation with the whitespace at its two
\* ends removed; items of another type and parts without text add nothing, and a
\* response without output items gives the empty string.
C10_RawIsTrimmedConcatenation ==
    /\ pc \in {"extracted", "joined", "done"} =>
           Concat(text_parts) = ExpectedRaw(completion.output)
    /\ pc = "joined" =>
        /\ text = Strip(ExpectedRaw(completion.output))
        /\ completion.output = <<>> => text = <<>>

C10_Witness ==
    /\ pc = "joined"
    /\ Len(completion.output) = 2
    /\ completion.output[1].type = "reasoning"
    /\ completion.output[2].type = "message"
    /\ completion.output[2].content = <<TextPart(TextBlank), TextPart(TextCalm)>>
    /\ text = TextCalm

====
